---- MODULE Spec2Model ----
(***************************************************************************)
(* Model of the select()-based multiplexing TCP server                      *)
(* (src/unnamed/part_001): the connection table clientStates, the          *)
(* find_free_slot scan and the main loop of main(), one action per step of *)
(* the loop, together with the peers and the kernel state the loop         *)
(* observes through select, accept, read and close.                        *)
(***************************************************************************)
EXTENDS Integers, Sequences, FiniteSets, TLC

VARIABLES
    clientStates,   \* clientstate_t clientStates[MAX_CLIENTS]: fd, state, buffer
    pc,             \* position of main(): build, select, listener, clients, exited
    i,              \* index of the client dispatch loop (line 130)
    read_fds,       \* fd_set read_fds
    nfds,           \* int nfds
    exit_code,      \* exit status once the process has exited, else -1
    last,           \* the latest step of main(): the call it made, its operands
                    \* (conn_fd or the slot's fd, freeSlot or i, bytes_read) and
                    \* the lines it wrote to stdout/stderr
    open,           \* kernel: the open client descriptors of the process
    inbox,          \* kernel: receive queue of every client descriptor
    peer,           \* kernel: what the remote end did: "open", "eof", "err"
    pending,        \* kernel: connections waiting in the listen queue
    readCount,      \* history: reads issued per slot in the current iteration
    readySlots,     \* history: slots whose descriptor select reported ready
    acceptOutcome,  \* history: what the listener dispatch of this iteration did
    hs,             \* the hello server (src/server.c): position of main(), its
                    \* descriptors, exit status, the lines it wrote
    hc,             \* the hello client (src/unnamed/part_000): position of main(),
                    \* argc, its descriptor, exit status, what handle_client decoded
    hnet,           \* kernel: the hello server's listen queue and the connection
                    \* between the two, with the bytes written to it
    ps,             \* the poll server (src/poll-system-call.md): clientStates,
                    \* fds, nfds, n_events, the loop index i, position, exit status
    pk,             \* kernel of the poll server: its open client descriptors,
                    \* what waits on each, the connections in the listen queue
    ph              \* history of the poll server's current iteration: the nfds
                    \* given to poll, the entries reported and those handled

vars == <<clientStates, pc, i, read_fds, nfds, exit_code, last, open, inbox,
          peer, pending, readCount, readySlots, acceptOutcome, hs, hc, hnet,
          ps, pk, ph>>

\* the state of the poll server and of its kernel objects
pollVars == <<ps, pk, ph>>

\* the state of the hello server and the hello client
helloVars == <<hs, hc, hnet>>

\* the state of the select server and of its kernel objects
selectVars == <<clientStates, pc, i, read_fds, nfds, exit_code, last, open, inbox,
                peer, pending, readCount, readySlots, acceptOutcome>>

progVars == <<clientStates, pc, i, read_fds, nfds, exit_code, last, readCount,
              readySlots, acceptOutcome>>

kernelVars == <<open, inbox, peer, pending>>

----------------------------------------------------------------------------
(* Program constants, scaled down from the source's values, and bounds.    *)

\* #define MAX_CLIENTS 256, scaled down
MAX_CLIENTS == 2
\* #define BUFF_SIZE 4096 and char buffer[4096], scaled down
BUFF_SIZE == 2
\* the descriptor socket() returns for the listener (0, 1, 2 are the std streams)
ListenFd == 3
\* EXIT_FAILURE of stdlib.h
EXIT_FAILURE == 1
\* connections the listen queue holds at most (listen(listen_fd, 10), scaled down)
MaxPending == 2

\* what a peer sends in one piece: a short and a buffer-filling message
Payloads == {<<1>>, <<1, 1>>}
\* a byte of memory past the end of a slot's buffer, as printf("%s") may read it
Junk == 99

Slots == 0 .. (MAX_CLIENTS - 1)
\* the descriptors accept() can return: the table's capacity plus the one
\* connection the server holds while it decides to reject it
ClientFds == (ListenFd + 1) .. (ListenFd + MAX_CLIENTS + 1)

Min(S) == CHOOSE x \in S : \A y \in S : x <= y

ZeroBuffer == [k \in 1 .. BUFF_SIZE |-> 0]

----------------------------------------------------------------------------
(* init_clients(): every slot free, STATE_NEW, buffer zeroed.              *)
init_clients ==
    [s \in Slots |-> [fd |-> -1, state |-> "STATE_NEW", buffer |-> ZeroBuffer]]

(* find_free_slot(): linear scan from index 0, first slot with fd == -1.   *)
RECURSIVE find_free_slot_from(_, _)
find_free_slot_from(cs, k) ==
    IF k >= MAX_CLIENTS THEN -1
    ELSE IF cs[k].fd = -1 THEN k
    ELSE find_free_slot_from(cs, k + 1)

\* variant: the table-full result is lost and slot 0 is handed out instead
find_free_slot_never_full(cs) ==
    IF find_free_slot_from(cs, 0) = -1 THEN 0 ELSE find_free_slot_from(cs, 0)

\* variant: the scan keeps the last free slot it meets instead of the first
find_free_slot_last(cs) ==
    IF \A s \in Slots : cs[s].fd # -1 THEN -1
    ELSE CHOOSE s \in Slots : cs[s].fd = -1 /\ \A t \in Slots : cs[t].fd = -1 => t <= s

find_free_slot(cs) == find_free_slot_from(cs, 0)


\* variant: the listener is monitored only while no slot is in use
query_set_without_listener(cs) ==
    IF \A t \in Slots : cs[t].fd = -1 THEN {ListenFd}
    ELSE {cs[s].fd : s \in {t \in Slots : cs[t].fd # -1}}

(* FD_SET of the listener and of every slot in use (lines 81-94).          *)
query_set(cs) == {ListenFd} \cup {cs[s].fd : s \in {t \in Slots : cs[t].fd # -1}}

(* nfds = listen_fd + 1, raised by the loop of lines 86-94.                 *)
RECURSIVE compute_nfds(_, _, _)
compute_nfds(cs, k, n) ==
    IF k >= MAX_CLIENTS THEN n
    ELSE IF cs[k].fd # -1 /\ cs[k].fd >= n THEN compute_nfds(cs, k + 1, cs[k].fd + 1)
    ELSE compute_nfds(cs, k + 1, n)

(* Kernel: is a descriptor readable (level-triggered).                     *)
Readable(fd) ==
    IF fd = ListenFd THEN pending > 0
    ELSE fd \in open /\ (inbox[fd] # <<>> \/ peer[fd] # "open")

(* select(nfds, &read_fds, ...): the members below nfds that are readable. *)
select_ready(fds, n) == {fd \in fds : fd < n /\ Readable(fd)}

\* variant: the listener is served only in a wake that reports no client
ListenerReadyWhenIdle == read_fds = {ListenFd}

(* FD_ISSET(listen_fd, &read_fds), line 111.                               *)
ListenerReady == ListenFd \in read_fds

(* The guard of the client dispatch, lines 132-133.                        *)
ClientReady(s) == clientStates[s].fd # -1 /\ clientStates[s].fd \in read_fds

\* variant: the descriptor is stored and the state is left as it was
register_fd_only(cs, slot, fd) == [cs EXCEPT ![slot].fd = fd]

(* Lines 125-126: the accepted descriptor is stored in the free slot.      *)
register(cs, slot, fd) ==
    [cs EXCEPT ![slot].fd = fd, ![slot].state = "STATE_CONNECTED"]

\* variant: the state is updated and the descriptor field is left as it was
release_state_only(cs, slot) == [cs EXCEPT ![slot].state = "STATE_DISCONNECTED"]

\* variant: the slot is reset to 0 instead of the free sentinel -1
release_wrong_sentinel(cs, slot) ==
    [cs EXCEPT ![slot].fd = 0, ![slot].state = "STATE_DISCONNECTED"]

(* Lines 141-142: the slot is marked free.                                 *)
release(cs, slot) ==
    [cs EXCEPT ![slot].fd = -1, ![slot].state = "STATE_DISCONNECTED"]

\* variant: the descriptor is never closed
close_nothing(op, fd) == op

(* close(fd): the descriptor leaves the process's descriptor table.        *)
close(op, fd) == op \ {fd}

(* read(fd, &buffer, sizeof(buffer)): the value read returns.              *)
read_result(fd) ==
    IF fd \notin open \/ peer[fd] = "err" THEN -1
    ELSE IF Len(inbox[fd]) > BUFF_SIZE THEN BUFF_SIZE
    ELSE Len(inbox[fd])

\* variant: the bytes land in the buffer of the next slot
read_into_next(cs, slot, data) ==
    [cs EXCEPT ![(slot + 1) % MAX_CLIENTS].buffer =
        [k \in 1 .. BUFF_SIZE |-> IF k <= Len(data) THEN data[k] ELSE @[k]]]

(* read stores the n bytes at the start of the slot's buffer and leaves    *)
(* the rest of the buffer as it was.                                       *)
read_into(cs, slot, data) ==
    [cs EXCEPT ![slot].buffer =
        [k \in 1 .. BUFF_SIZE |-> IF k <= Len(data) THEN data[k] ELSE @[k]]]

(* printf("%s", buffer): the bytes up to the first NUL; a buffer holding   *)
(* no NUL is read past its end (undefined: with or without stray bytes).   *)
printf_s(buf) ==
    IF \E k \in 1 .. BUFF_SIZE : buf[k] = 0
    THEN {SubSeq(buf, 1, Min({k \in 1 .. BUFF_SIZE : buf[k] = 0}) - 1)}
    ELSE {buf, buf \o <<Junk>>}

Line(text) == [line |-> text, data |-> <<>>]

(* The record of one step of main().                                       *)
Step(op, fd, slot, n, bytes, lines) ==
    [op |-> op, fd |-> fd, slot |-> slot, n |-> n, bytes |-> bytes, lines |-> lines]

ZeroCount == [s \in Slots |-> 0]

----------------------------------------------------------------------------
(* The hello handshake: src/server.c writes one frame, the client of       *)
(* src/unnamed/part_000 reads and decodes it.  Memory is modelled as       *)
(* bytes; an integer is stored in the byte order of the host.              *)

\* sizeof(proto_hdr_t): a 4-byte enum, a 2-byte unsigned short, 2 bytes of padding
SizeofHdr == 8
\* sizeof(int), the size of the enum and of the payload
SizeofInt == 4
\* sizeof(unsigned short)
SizeofShort == 2
\* PROTO_HELLO, the only enumerator of proto_type_e
PROTO_HELLO == 0

Reverse(q) == [k \in 1 .. Len(q) |-> q[Len(q) + 1 - k]]

\* the w bytes of x, most significant first
RECURSIVE BytesBE(_, _)
BytesBE(x, w) == IF w = 0 THEN <<>> ELSE BytesBE(x \div 256, w - 1) \o <<x % 256>>

\* the integer whose bytes, most significant first, are q
RECURSIVE ValueBE(_)
ValueBE(q) == IF q = <<>> THEN 0 ELSE 256 * ValueBE(SubSeq(q, 1, Len(q) - 1)) + q[Len(q)]

\* an integer of w bytes as it lies in the memory of a host of byte order e
store(e, x, w) == IF e = "little" THEN Reverse(BytesBE(x, w)) ELSE BytesBE(x, w)
\* the integer that the bytes q are in the memory of a host of byte order e
load(e, q) == IF e = "little" THEN ValueBE(Reverse(q)) ELSE ValueBE(q)

\* htonl, htons: host to network byte order (a byte swap on a little-endian host)
htonl(e, x) == IF e = "little" THEN ValueBE(Reverse(BytesBE(x, SizeofInt))) ELSE x
htons(e, x) == IF e = "little" THEN ValueBE(Reverse(BytesBE(x, SizeofShort))) ELSE x

\* variant: the conversion is left out
ntohl_left_out(e, x) == x

\* ntohl, ntohs: network to host byte order
ntohl(e, x) == IF e = "little" THEN ValueBE(Reverse(BytesBE(x, SizeofInt))) ELSE x
ntohs(e, x) == IF e = "little" THEN ValueBE(Reverse(BytesBE(x, SizeofShort))) ELSE x

(* handle_client of server.c, lines 17-29: the zeroed buffer with type at  *)
(* offset 0, len = sizeof(int) at offset 4, the payload at &hdr[1], that   *)
(* is at offset sizeof(proto_hdr_t); the first sizeof(proto_hdr_t) +       *)
(* real_len bytes are written.  The source writes tag PROTO_HELLO and      *)
(* version 1.  pad is the content of the header's two padding bytes.       *)
build_frame(e, tag, version, pad) ==
    LET real_len == SizeofInt
        type_b   == store(e, htonl(e, tag), SizeofInt)
        len_b    == store(e, htons(e, real_len), SizeofShort)
        data_b   == store(e, htonl(e, version), SizeofInt)
    IN [k \in 1 .. (SizeofHdr + real_len) |->
          IF k <= SizeofInt THEN type_b[k]
          ELSE IF k <= SizeofInt + SizeofShort THEN len_b[k - SizeofInt]
          ELSE IF k <= SizeofHdr THEN pad
          ELSE data_b[k - SizeofHdr]]

(* handle_client of part_000, lines 18-25: the bytes read lie at the start *)
(* of a zeroed buffer; type, len and the payload at &hdr[1] are converted  *)
(* to host order.                                                          *)
decode_frame(e, bytes) ==
    LET size == SizeofHdr + SizeofInt
        n    == IF Len(bytes) < size THEN Len(bytes) ELSE size
        buf  == [k \in 1 .. size |-> IF k <= n THEN bytes[k] ELSE 0]
    IN [type |-> ntohl(e, load(e, SubSeq(buf, 1, SizeofInt))),
        len  |-> ntohs(e, load(e, SubSeq(buf, SizeofInt + 1, SizeofInt + SizeofShort))),
        data |-> ntohl(e, load(e, SubSeq(buf, SizeofHdr + 1, SizeofHdr + SizeofInt)))]

(* Lines 27-38 of part_000: what handle_client prints for a decoded frame. *)
report(d) ==
    IF d.type # PROTO_HELLO THEN <<Line("Protocol mismatch")>>
    ELSE IF d.data # 1
         THEN <<[line |-> "Version", data |-> <<d.data>>], Line("Protocal version mismatch")>>
    ELSE <<Line("Server connected to protocol v1")>>

\* the exit status of a process whose main returns r
ExitStatus(r) == r % 256

\* the tags and versions a sending peer may put in its frame (server.c: 0 and 1)
Tags == {0, 1}
Versions == {0, 1, 2, 16777216}
ByteOrders == {"little", "big"}
\* what the two padding bytes of the header may hold
Pads == {0, 170}
\* argc of the client: the program name alone, or with the server's address
Argcs == {1, 2}

HsStart(tag, version, e, pad) ==
    [pc |-> "socket", exit |-> -1, out |-> <<>>, sock |-> FALSE, listening |-> FALSE,
     cfd |-> FALSE, failed |-> "none", looped |-> FALSE, acceptFailed |-> FALSE,
     tag |-> tag, version |-> version, endian |-> e, pad |-> pad]

HcStart(argc, e) ==
    [pc |-> "start", exit |-> -1, out |-> <<>>, argc |-> argc, fd |-> FALSE,
     sockets |-> 0, connects |-> 0, reads |-> 0, n |-> 0,
     hdr |-> [type |-> 0, len |-> 0, data |-> 0], endian |-> e]

NetStart == [conn |-> "none", wire |-> <<>>, sent |-> <<>>, reply |-> <<>>]

----------------------------------------------------------------------------
(* The poll server: the walkthrough of src/poll-system-call.md, sections   *)
(* 2 to 5.  Its table clientStates and find_free_slot are those of         *)
(* part_001; the buffers play no part in what is checked and are left out. *)

\* MAX_CLIENTS of the walkthrough (256 at line 144)
PollMaxClients == 3
\* connections that may wait in the listen queue of the poll server
PollMaxPending == 1
\* calls of accept that may fail in one run
MaxAcceptFailures == 1

PSlots == 0 .. (PollMaxClients - 1)
\* the indices of struct pollfd fds[MAX_CLIENTS + 1]
PollIdx == 0 .. PollMaxClients
\* the descriptors accept may return: one more than the table holds
PollFds == (ListenFd + 1) .. (ListenFd + PollMaxClients + 1)

(* An entry of fds that was never assigned: zeroed storage, or whatever    *)
(* the stack held.                                                         *)
PollGarbage == {[fd |-> 0, events |-> {}, revents |-> {}],
                [fd |-> -1, events |-> {}, revents |-> {"POLLIN"}]}

poll_init_clients == [s \in PSlots |-> [fd |-> -1, state |-> "STATE_NEW"]]

RECURSIVE poll_find_free_slot_from(_, _)
poll_find_free_slot_from(cs, k) ==
    IF k >= PollMaxClients THEN -1
    ELSE IF cs[k].fd = -1 THEN k
    ELSE poll_find_free_slot_from(cs, k + 1)

(* find_free_slot(), called at line 192.                                   *)
poll_find_free_slot(cs) == poll_find_free_slot_from(cs, 0)

(* find_slot_by_fd(fd), called at line 217: the slot that holds fd, or -1. *)
find_slot_by_fd(cs, fd) ==
    IF \E s \in PSlots : cs[s].fd = fd
    THEN Min({s \in PSlots : cs[s].fd = fd})
    ELSE -1

\* the descriptors of the slots in use from slot k on, in slot order
RECURSIVE active_fds(_, _)
active_fds(cs, k) ==
    IF k >= PollMaxClients THEN <<>>
    ELSE (IF cs[k].fd # -1 THEN <<cs[k].fd>> ELSE <<>>) \o active_fds(cs, k + 1)

(* Lines 162-169: entries 1, 2, ... are set to the descriptors of the      *)
(* slots in use; the entries after them and every revents are left as      *)
(* they were.                                                              *)
rebuild_fds(cs, fds) ==
    LET act == active_fds(cs, 0)
    IN [k \in PollIdx |->
          IF 1 <= k /\ k <= Len(act)
          THEN [fd |-> act[k], events |-> {"POLLIN"}, revents |-> fds[k].revents]
          ELSE fds[k]]

(* Kernel: the revents poll stores for one entry it is given.              *)
poll_revents(e) ==
    IF e.fd < 0 THEN {}
    ELSE IF e.fd = ListenFd
         THEN (IF pk.pending > 0 /\ "POLLIN" \in e.events THEN {"POLLIN"} ELSE {})
    ELSE IF e.fd \notin PollFds THEN {}
    ELSE IF e.fd \notin pk.open THEN {"POLLNVAL"}
    ELSE IF pk.stat[e.fd] # "idle" /\ "POLLIN" \in e.events THEN {"POLLIN"}
    ELSE {}

(* poll(fds, nfds, -1), line 172: revents of the first nfds entries.       *)
poll_result(fds, n) ==
    [k \in PollIdx |-> IF k < n THEN [fds[k] EXCEPT !.revents = poll_revents(fds[k])]
                       ELSE fds[k]]

\* the value poll returns: the entries among the first n with an event
poll_count(fds, n) == Cardinality({k \in PollIdx : k < n /\ fds[k].revents # {}})

PsStart(g) ==
    [clientStates |-> poll_init_clients,
     fds |-> [k \in PollIdx |->
                 IF k = 0 THEN [fd |-> ListenFd, events |-> {"POLLIN"}, revents |-> g.revents]
                 ELSE g],
     nfds |-> 1, n_events |-> 0, i |-> 1, pc |-> "rebuild", exit |-> -1]

PkStart == [open |-> {}, stat |-> [fd \in PollFds |-> "idle"], pending |-> 0]

PhStart ==
    [polled |-> 0, reported |-> {}, handled |-> <<>>, accepted |-> -1, failures |-> 0]

----------------------------------------------------------------------------
(* The state at line 77: init_clients, socket, bind and listen are done.   *)
Init ==
    /\ clientStates = init_clients
    /\ pc = "build"
    /\ i = 0
    /\ read_fds = {}
    /\ nfds = 0
    /\ exit_code = -1
    /\ last = Step("listen", ListenFd, -1, 0, <<>>, <<Line("Server listening on port")>>)
    /\ open = {}
    /\ inbox = [fd \in ClientFds |-> <<>>]
    /\ peer = [fd \in ClientFds |-> "open"]
    /\ pending = 0
    /\ readCount = ZeroCount
    /\ readySlots = {}
    /\ acceptOutcome = "none"
    /\ hs = HsStart(PROTO_HELLO, 1, "little", 0)
    /\ hc = HcStart(2, "little")
    /\ hnet = NetStart
    /\ ps = PsStart([fd |-> 0, events |-> {}, revents |-> {}])
    /\ pk = PkStart
    /\ ph = PhStart

\* variant: the set is not zeroed, what select left in it stays
BuildQuerySetCarryOver ==
    /\ pc = "build"
    /\ read_fds' = read_fds \cup query_set(clientStates)
    /\ nfds' = compute_nfds(clientStates, 0, ListenFd + 1)
    /\ pc' = "select"
    /\ last' = Step("build", -1, -1, 0, <<>>, <<>>)
    /\ readCount' = ZeroCount
    /\ readySlots' = {}
    /\ acceptOutcome' = "none"
    /\ UNCHANGED <<pollVars, helloVars, clientStates, i, exit_code, kernelVars>>

(* Lines 78-94: FD_ZERO, FD_SET of the listener and of the slots in use.   *)
(* write_fds is zeroed and never filled: it plays no part.                 *)
BuildQuerySet ==
    /\ pc = "build"
    /\ read_fds' = query_set(clientStates)
    /\ nfds' = compute_nfds(clientStates, 0, ListenFd + 1)
    /\ pc' = "select"
    /\ last' = Step("build", -1, -1, 0, <<>>, <<>>)
    /\ readCount' = ZeroCount
    /\ readySlots' = {}
    /\ acceptOutcome' = "none"
    /\ UNCHANGED <<pollVars, helloVars, clientStates, i, exit_code, kernelVars>>

(* Line 106: select blocks until a monitored descriptor is readable and    *)
(* leaves in read_fds the descriptors that are.                            *)
SelectReturn ==
    /\ pc = "select"
    /\ select_ready(read_fds, nfds) # {}
    /\ read_fds' = select_ready(read_fds, nfds)
    /\ readySlots' = {s \in Slots : clientStates[s].fd # -1
                                    /\ clientStates[s].fd \in read_fds'}
    /\ pc' = "listener"
    /\ last' = Step("select", -1, -1, Cardinality(read_fds'), <<>>, <<>>)
    /\ UNCHANGED <<pollVars, helloVars, clientStates, i, nfds, exit_code, readCount, acceptOutcome,
                   kernelVars>>

\* variant: a failed select is reported and the loop starts over
SelectFailRetry ==
    /\ pc = "select"
    /\ pc' = "build"
    /\ last' = Step("select", -1, -1, -1, <<>>, <<Line("Select")>>)
    /\ UNCHANGED <<pollVars, helloVars, clientStates, i, read_fds, nfds, exit_code, readCount, readySlots,
                   acceptOutcome, kernelVars>>

(* Lines 106-109: select returns -1; perror and exit(EXIT_FAILURE).        *)
SelectFail ==
    /\ pc = "select"
    /\ pc' = "exited"
    /\ exit_code' = EXIT_FAILURE
    /\ last' = Step("select", -1, -1, -1, <<>>, <<Line("Select")>>)
    /\ UNCHANGED <<pollVars, helloVars, clientStates, i, read_fds, nfds, readCount, readySlots,
                   acceptOutcome, kernelVars>>

(* Line 111 false: the listener is not in the returned set.                *)
ListenerNotReady ==
    /\ pc = "listener"
    /\ ~ListenerReady
    /\ pc' = "clients"
    /\ i' = 0
    /\ last' = Step("none", -1, -1, 0, <<>>, <<>>)
    /\ UNCHANGED <<pollVars, helloVars, clientStates, read_fds, nfds, exit_code, readCount, readySlots,
                   acceptOutcome, kernelVars>>

(* Lines 112-115: accept returns -1; perror and continue.  The queued      *)
(* connection is gone (ECONNABORTED) or still queued (EMFILE, EINTR).      *)
AcceptFail ==
    /\ pc = "listener"
    /\ ListenerReady
    /\ \/ pending' = pending
       \/ pending > 0 /\ pending' = pending - 1
    /\ acceptOutcome' = "failed"
    /\ last' = Step("accept", -1, -1, -1, <<>>, <<Line("accpet")>>)
    /\ pc' = "build"
    /\ UNCHANGED <<pollVars, helloVars, clientStates, i, read_fds, nfds, exit_code, readCount,
                   readySlots, open, inbox, peer>>

(* accept returns the lowest descriptor not in use.                        *)
accept_fd == Min(ClientFds \ open)

(* Lines 112-127 with a free slot: the connection is stored in it.  An     *)
(* accept with nothing queued does not return.                             *)
AcceptRegister ==
    /\ pc = "listener"
    /\ ListenerReady
    /\ pending > 0
    /\ LET conn_fd  == accept_fd
           freeSlot == find_free_slot(clientStates)
       IN /\ freeSlot # -1
          /\ clientStates' = register(clientStates, freeSlot, conn_fd)
          /\ open' = open \cup {conn_fd}
          /\ last' = Step("accept", conn_fd, freeSlot, 0, <<>>,
                          <<Line("New connection from")>>)
    /\ pending' = pending - 1
    /\ acceptOutcome' = "registered"
    /\ pc' = "clients"
    /\ i' = 0
    /\ UNCHANGED <<pollVars, helloVars, read_fds, nfds, exit_code, readCount, readySlots, inbox, peer>>

(* Lines 112-123 with no free slot and the close of line 121 left out: the  *)
(* accepted connection stays open with no slot holding it.                 *)
AcceptRejectLeak ==
    /\ pc = "listener"
    /\ ListenerReady
    /\ pending > 0
    /\ LET conn_fd  == accept_fd
           freeSlot == find_free_slot(clientStates)
       IN /\ freeSlot = -1
          /\ open' = open \cup {conn_fd}
          /\ last' = Step("accept", conn_fd, freeSlot, 0, <<>>,
                          <<Line("New connection from"),
                            Line("Server full, closing new connection")>>)
    /\ pending' = pending - 1
    /\ acceptOutcome' = "rejected"
    /\ pc' = "clients"
    /\ i' = 0
    /\ UNCHANGED <<pollVars, helloVars, clientStates, read_fds, nfds, exit_code, readCount,
                   readySlots, inbox, peer>>

(* Lines 112-123 with no free slot: the connection is closed at once.      *)
AcceptReject ==
    /\ pc = "listener"
    /\ ListenerReady
    /\ pending > 0
    /\ LET conn_fd  == accept_fd
           freeSlot == find_free_slot(clientStates)
       IN /\ freeSlot = -1
          /\ open' = close(open \cup {conn_fd}, conn_fd)
          /\ last' = Step("accept", conn_fd, freeSlot, 0, <<>>,
                          <<Line("New connection from"),
                            Line("Server full, closing new connection")>>)
    /\ pending' = pending - 1
    /\ acceptOutcome' = "rejected"
    /\ pc' = "clients"
    /\ i' = 0
    /\ UNCHANGED <<pollVars, helloVars, clientStates, read_fds, nfds, exit_code, readCount, readySlots,
                   inbox, peer>>

(* The for statement of line 130: next index, or back to line 77.          *)
Advance ==
    /\ i' = IF i + 1 < MAX_CLIENTS THEN i + 1 ELSE 0
    /\ pc' = IF i + 1 < MAX_CLIENTS THEN "clients" ELSE "build"

(* Lines 132-133 false: the slot is free or its descriptor is not ready.   *)
ClientSkip ==
    /\ pc = "clients"
    /\ ~ClientReady(i)
    /\ Advance
    /\ last' = Step("none", -1, i, 0, <<>>, <<>>)
    /\ UNCHANGED <<pollVars, helloVars, clientStates, read_fds, nfds, exit_code, readCount, readySlots,
                   acceptOutcome, kernelVars>>

(* Lines 134-146 with bytes_read > 0: the bytes are stored in the slot's   *)
(* buffer and the buffer is printed.                                       *)
ClientData ==
    /\ pc = "clients"
    /\ ClientReady(i)
    /\ LET fd         == clientStates[i].fd
           bytes_read == read_result(fd)
       IN /\ bytes_read > 0
          /\ clientStates' = read_into(clientStates, i, SubSeq(inbox[fd], 1, bytes_read))
          /\ inbox' = [inbox EXCEPT ![fd] = SubSeq(@, bytes_read + 1, Len(@))]
          /\ \E s \in printf_s(clientStates'[i].buffer) :
                last' = Step("read", fd, i, bytes_read, SubSeq(inbox[fd], 1, bytes_read),
                             <<[line |-> "Received data from the client", data |-> s]>>)
    /\ readCount' = [readCount EXCEPT ![i] = @ + 1]
    /\ Advance
    /\ UNCHANGED <<pollVars, helloVars, read_fds, nfds, exit_code, readySlots, acceptOutcome, open, peer,
                   pending>>

(* Lines 134-143 with bytes_read <= 0: close and free the slot.  A read on *)
(* a descriptor with nothing queued and an open peer does not return.      *)
ClientRelease ==
    /\ pc = "clients"
    /\ ClientReady(i)
    /\ LET fd         == clientStates[i].fd
           bytes_read == read_result(fd)
       IN /\ bytes_read <= 0
          /\ bytes_read = 0 => peer[fd] = "eof"
          /\ open' = close(open, fd)
          /\ inbox' = [inbox EXCEPT ![fd] = <<>>]
          /\ peer' = [peer EXCEPT ![fd] = "open"]
          /\ last' = Step("read", fd, i, bytes_read, <<>>,
                          <<Line("Client disconnected or error")>>)
    /\ clientStates' = release(clientStates, i)
    /\ readCount' = [readCount EXCEPT ![i] = @ + 1]
    /\ Advance
    /\ UNCHANGED <<pollVars, helloVars, read_fds, nfds, exit_code, readySlots, acceptOutcome, pending>>

----------------------------------------------------------------------------
(* The peers.  They act at any time while the server runs.                 *)

(* A client connects: one more connection in the listen queue.             *)
PeerConnect ==
    /\ pc # "exited"
    /\ pending < MaxPending
    /\ pending' = pending + 1
    /\ UNCHANGED <<pollVars, helloVars, progVars, open, inbox, peer>>

(* A queued client gives up before it is accepted.                         *)
PeerAbort ==
    /\ pc # "exited"
    /\ pending > 0
    /\ pending' = pending - 1
    /\ UNCHANGED <<pollVars, helloVars, progVars, open, inbox, peer>>

(* The peer of an accepted connection sends a message.                     *)
PeerSend ==
    /\ pc # "exited"
    /\ \E fd \in open, m \in Payloads :
          /\ peer[fd] = "open"
          /\ inbox[fd] = <<>>
          /\ inbox' = [inbox EXCEPT ![fd] = m]
    /\ UNCHANGED <<pollVars, helloVars, progVars, open, peer, pending>>

(* The peer closes its end once what it sent has been read: read gives 0.  *)
PeerClose ==
    /\ pc # "exited"
    /\ \E fd \in open :
          /\ peer[fd] = "open"
          /\ inbox[fd] = <<>>
          /\ peer' = [peer EXCEPT ![fd] = "eof"]
    /\ UNCHANGED <<pollVars, helloVars, progVars, open, inbox, pending>>

(* The connection is reset: what is queued is lost, read fails.            *)
PeerReset ==
    /\ pc # "exited"
    /\ \E fd \in open :
          /\ peer[fd] = "open"
          /\ peer' = [peer EXCEPT ![fd] = "err"]
          /\ inbox' = [inbox EXCEPT ![fd] = <<>>]
    /\ UNCHANGED <<pollVars, helloVars, progVars, open, pending>>

Next ==
    \/ BuildQuerySet
    \/ SelectReturn
    \/ SelectFail
    \/ ListenerNotReady
    \/ AcceptFail
    \/ AcceptRegister
    \/ AcceptReject
    \/ ClientSkip
    \/ ClientData
    \/ ClientRelease
    \/ PeerConnect
    \/ PeerAbort
    \/ PeerSend
    \/ PeerClose
    \/ PeerReset

Spec == Init /\ [][Next]_vars

(* The steps of the server in which no system call fails.                  *)
ServerProgress ==
    \/ BuildQuerySet
    \/ SelectReturn
    \/ ListenerNotReady
    \/ AcceptRegister
    \/ AcceptReject
    \/ ClientSkip
    \/ ClientData
    \/ ClientRelease

(* The server is scheduled: a statement that can run does run and a system *)
(* call that can return does return (weak fairness); accept does not fail  *)
(* forever while a connection is queued (strong fairness).                 *)
FairSpec ==
    /\ Spec
    /\ WF_vars(ServerProgress)
    /\ SF_vars(AcceptRegister \/ AcceptReject)

----------------------------------------------------------------------------
(* Start-up of the select server: lines 53-75 of part_001.                 *)

SetupSocketOk ==
    /\ pc = "socket"
    /\ pc' = "bind"
    /\ last' = Step("socket", ListenFd, -1, 0, <<>>, <<>>)
    /\ UNCHANGED <<pollVars, helloVars, clientStates, i, read_fds, nfds, exit_code, readCount,
                   readySlots, acceptOutcome, kernelVars>>

(* Lines 55-58: perror("socket"); exit(EXIT_FAILURE).                      *)
SetupSocketFail ==
    /\ pc = "socket"
    /\ pc' = "exited"
    /\ exit_code' = EXIT_FAILURE
    /\ last' = Step("socket", -1, -1, -1, <<>>, <<Line("socket")>>)
    /\ UNCHANGED <<pollVars, helloVars, clientStates, i, read_fds, nfds, readCount, readySlots,
                   acceptOutcome, kernelVars>>

SetupBindOk ==
    /\ pc = "bind"
    /\ pc' = "listen"
    /\ last' = Step("bind", ListenFd, -1, 0, <<>>, <<>>)
    /\ UNCHANGED <<pollVars, helloVars, clientStates, i, read_fds, nfds, exit_code, readCount,
                   readySlots, acceptOutcome, kernelVars>>

(* Lines 65-68: perror("Bind"); exit(EXIT_FAILURE).                        *)
SetupBindFail ==
    /\ pc = "bind"
    /\ pc' = "exited"
    /\ exit_code' = EXIT_FAILURE
    /\ last' = Step("bind", ListenFd, -1, -1, <<>>, <<Line("Bind")>>)
    /\ UNCHANGED <<pollVars, helloVars, clientStates, i, read_fds, nfds, readCount, readySlots,
                   acceptOutcome, kernelVars>>

(* Lines 70-75: listen succeeds, the banner is printed, the loop of line   *)
(* 77 is entered.                                                          *)
SetupListenOk ==
    /\ pc = "listen"
    /\ pc' = "build"
    /\ last' = Step("listen", ListenFd, -1, 0, <<>>, <<Line("Server listening on port")>>)
    /\ UNCHANGED <<pollVars, helloVars, clientStates, i, read_fds, nfds, exit_code, readCount,
                   readySlots, acceptOutcome, kernelVars>>

(* Lines 70-73: perror("listen"); exit(EXIT_FAILURE).                      *)
SetupListenFail ==
    /\ pc = "listen"
    /\ pc' = "exited"
    /\ exit_code' = EXIT_FAILURE
    /\ last' = Step("listen", ListenFd, -1, -1, <<>>, <<Line("listen")>>)
    /\ UNCHANGED <<pollVars, helloVars, clientStates, i, read_fds, nfds, readCount, readySlots,
                   acceptOutcome, kernelVars>>

----------------------------------------------------------------------------
(* The hello server: main of src/server.c.                                 *)

HsSocketOk ==
    /\ hs.pc = "socket"
    /\ hs' = [hs EXCEPT !.pc = "bind", !.sock = TRUE]
    /\ UNCHANGED <<pollVars, selectVars, hc, hnet>>

(* Lines 46-49: perror("socket"); return -1.                               *)
HsSocketFail ==
    /\ hs.pc = "socket"
    /\ hs' = [hs EXCEPT !.pc = "exited", !.failed = "socket", !.exit = ExitStatus(-1),
                        !.out = Append(@, Line("socket"))]
    /\ UNCHANGED <<pollVars, selectVars, hc, hnet>>

HsBindOk ==
    /\ hs.pc = "bind"
    /\ hs' = [hs EXCEPT !.pc = "listen"]
    /\ UNCHANGED <<pollVars, selectVars, hc, hnet>>

(* Lines 50-54: perror("bind"); close(server_socket); return -1.           *)
HsBindFail ==
    /\ hs.pc = "bind"
    /\ hs' = [hs EXCEPT !.pc = "exited", !.failed = "bind", !.sock = FALSE,
                        !.exit = ExitStatus(-1), !.out = Append(@, Line("bind"))]
    /\ UNCHANGED <<pollVars, selectVars, hc, hnet>>

HsListenOk ==
    /\ hs.pc = "listen"
    /\ hs' = [hs EXCEPT !.pc = "accept", !.listening = TRUE, !.looped = TRUE]
    /\ UNCHANGED <<pollVars, selectVars, hc, hnet>>

(* Lines 56-57: the body of the if is empty; the loop of line 60 follows.  *)
HsListenFail ==
    /\ hs.pc = "listen"
    /\ hs' = [hs EXCEPT !.pc = "accept", !.failed = "listen", !.looped = TRUE]
    /\ UNCHANGED <<pollVars, selectVars, hc, hnet>>

(* Lines 62-63 and 71: accept returns the queued connection.  An accept    *)
(* with nothing queued does not return.                                    *)
HsAcceptOk ==
    /\ hs.pc = "accept"
    /\ hs.listening
    /\ hnet.conn = "queued"
    /\ hs' = [hs EXCEPT !.pc = "handle", !.cfd = TRUE, !.out = Append(@, Line("clientSize"))]
    /\ hnet' = [hnet EXCEPT !.conn = "accepted"]
    /\ UNCHANGED <<pollVars, selectVars, hc>>

(* Lines 62-69: accept returns -1 (always so on a socket that does not     *)
(* listen); perror("accept"); close(server_socket); return -1.  A          *)
(* connection still queued on the listener is reset.                       *)
HsAcceptFail ==
    /\ hs.pc = "accept"
    /\ hs' = [hs EXCEPT !.pc = "exited", !.acceptFailed = TRUE, !.sock = FALSE,
                        !.listening = FALSE, !.exit = ExitStatus(-1),
                        !.out = @ \o <<Line("clientSize"), Line("accept")>>]
    /\ hnet' = [hnet EXCEPT !.conn = IF @ = "queued" THEN "reset" ELSE @]
    /\ UNCHANGED <<pollVars, selectVars, hc>>

(* Line 71, handle_client: the frame is written to the connection.         *)
HsHandle ==
    /\ hs.pc = "handle"
    /\ LET frame == build_frame(hs.endian, hs.tag, hs.version, hs.pad)
       IN hnet' = [hnet EXCEPT !.wire = @ \o frame, !.sent = @ \o frame]
    /\ hs' = [hs EXCEPT !.pc = "close"]
    /\ UNCHANGED <<pollVars, selectVars, hc>>

(* Line 73: close(client_fd); back to accept.                              *)
HsClose ==
    /\ hs.pc = "close"
    /\ hs' = [hs EXCEPT !.pc = "accept", !.cfd = FALSE]
    /\ hnet' = [hnet EXCEPT !.conn = IF @ = "accepted" THEN "server_closed" ELSE @]
    /\ UNCHANGED <<pollVars, selectVars, hc>>

----------------------------------------------------------------------------
(* The hello client: main of src/unnamed/part_000.                         *)

\* variant: the usage message is printed and main goes on
HcUsageGoesOn ==
    /\ hc.pc = "start"
    /\ hc.argc < 2
    /\ hc' = [hc EXCEPT !.pc = "connect", !.fd = TRUE, !.sockets = @ + 1,
                        !.out = Append(@, Line("Usage"))]
    /\ UNCHANGED <<pollVars, selectVars, hs, hnet>>

(* Lines 42-45: fprintf(stderr, "Usage: ..."); return -1.                  *)
HcUsage ==
    /\ hc.pc = "start"
    /\ hc.argc < 2
    /\ hc' = [hc EXCEPT !.pc = "exited", !.exit = ExitStatus(-1),
                        !.out = Append(@, Line("Usage"))]
    /\ UNCHANGED <<pollVars, selectVars, hs, hnet>>

(* Line 55: socket returns a descriptor.                                   *)
HcSocketOk ==
    /\ hc.pc = "start"
    /\ hc.argc >= 2
    /\ hc' = [hc EXCEPT !.pc = "connect", !.fd = TRUE, !.sockets = @ + 1]
    /\ UNCHANGED <<pollVars, selectVars, hs, hnet>>

(* Lines 55-60: perror("socket"); return -1.                               *)
HcSocketFail ==
    /\ hc.pc = "start"
    /\ hc.argc >= 2
    /\ hc' = [hc EXCEPT !.pc = "exited", !.exit = ExitStatus(-1),
                        !.sockets = @ + 1, !.out = Append(@, Line("socket"))]
    /\ UNCHANGED <<pollVars, selectVars, hs, hnet>>

(* Line 62: connect succeeds once the kernel of a listening server has     *)
(* queued the connection.                                                  *)
HcConnectOk ==
    /\ hc.pc = "connect"
    /\ hs.listening
    /\ hnet.conn = "none"
    /\ hc' = [hc EXCEPT !.pc = "handle", !.connects = @ + 1]
    /\ hnet' = [hnet EXCEPT !.conn = "queued"]
    /\ UNCHANGED <<pollVars, selectVars, hs>>

(* Lines 62-66: perror("connect"); close(fd); return 0.                    *)
HcConnectFail ==
    /\ hc.pc = "connect"
    /\ hc' = [hc EXCEPT !.pc = "exited", !.exit = ExitStatus(0), !.fd = FALSE,
                        !.connects = @ + 1, !.out = Append(@, Line("connect"))]
    /\ UNCHANGED <<pollVars, selectVars, hs, hnet>>

(* Line 68, handle_client: one read of at most sizeof(proto_hdr_t) +       *)
(* sizeof(int) bytes, whose result is not looked at; the buffer is decoded *)
(* and reported.  The read returns once the frame has arrived or the       *)
(* connection was closed or reset by the server.                           *)
HcRead ==
    /\ hc.pc = "handle"
    /\ hnet.wire # <<>> \/ hnet.conn \in {"server_closed", "reset"}
    /\ LET size  == SizeofHdr + SizeofInt
           n     == IF hnet.wire = <<>> THEN (IF hnet.conn = "reset" THEN -1 ELSE 0)
                    ELSE IF Len(hnet.wire) < size THEN Len(hnet.wire) ELSE size
           bytes == IF n > 0 THEN SubSeq(hnet.wire, 1, n) ELSE <<>>
           d     == decode_frame(hc.endian, bytes)
       IN /\ hc' = [hc EXCEPT !.pc = "close", !.reads = @ + 1, !.n = n, !.hdr = d,
                              !.out = @ \o report(d)]
          /\ hnet' = [hnet EXCEPT !.wire = IF n > 0 THEN SubSeq(@, n + 1, Len(@)) ELSE @]
    /\ UNCHANGED <<pollVars, selectVars, hs>>

(* Lines 70-71: close(fd); main ends, which returns 0.                     *)
HcClose ==
    /\ hc.pc = "close"
    /\ hc' = [hc EXCEPT !.pc = "exited", !.fd = FALSE, !.exit = ExitStatus(0)]
    /\ UNCHANGED <<pollVars, selectVars, hs, hnet>>

----------------------------------------------------------------------------
(* The three programs from the first statement of main.  The loop of the   *)
(* select server is the subject of Spec; here it stops at line 77.         *)

InitStartup ==
    /\ clientStates = init_clients
    /\ pc = "socket"
    /\ i = 0
    /\ read_fds = {}
    /\ nfds = 0
    /\ exit_code = -1
    /\ last = Step("start", -1, -1, 0, <<>>, <<>>)
    /\ open = {}
    /\ inbox = [fd \in ClientFds |-> <<>>]
    /\ peer = [fd \in ClientFds |-> "open"]
    /\ pending = 0
    /\ readCount = ZeroCount
    /\ readySlots = {}
    /\ acceptOutcome = "none"
    /\ \E tag \in Tags, version \in Versions, e \in ByteOrders, pad \in Pads :
          hs = HsStart(tag, version, e, pad)
    /\ \E argc \in Argcs, e \in ByteOrders : hc = HcStart(argc, e)
    /\ hnet = NetStart
    /\ ps = PsStart([fd |-> 0, events |-> {}, revents |-> {}])
    /\ pk = PkStart
    /\ ph = PhStart

NextStartup ==
    \/ SetupSocketOk
    \/ SetupSocketFail
    \/ SetupBindOk
    \/ SetupBindFail
    \/ SetupListenOk
    \/ SetupListenFail
    \/ HsSocketOk
    \/ HsSocketFail
    \/ HsBindOk
    \/ HsBindFail
    \/ HsListenOk
    \/ HsListenFail
    \/ HsAcceptOk
    \/ HsAcceptFail
    \/ HsHandle
    \/ HsClose
    \/ HcUsage
    \/ HcSocketOk
    \/ HcSocketFail
    \/ HcConnectOk
    \/ HcConnectFail
    \/ HcRead
    \/ HcClose

SpecStartup == InitStartup /\ [][NextStartup]_vars

----------------------------------------------------------------------------
(* The loop of the poll server, sections 3 to 5 of the walkthrough.        *)

(* The test of the for statement of line 214 for the values it will see:   *)
(* the loop body runs, or the while loop starts over.                      *)
PollAdvance(i2, nfds2, n_events2) ==
    IF i2 <= nfds2 /\ n_events2 > 0 THEN "clients" ELSE "rebuild"

(* Lines 162-169: the entries of the clients are written again.            *)
PollRebuild ==
    /\ ps.pc = "rebuild"
    /\ ps' = [ps EXCEPT !.fds = rebuild_fds(ps.clientStates, ps.fds), !.pc = "poll"]
    /\ ph' = [ph EXCEPT !.polled = 0, !.reported = {}, !.handled = <<>>, !.accepted = -1]
    /\ UNCHANGED <<selectVars, helloVars, pk>>

(* Line 172: poll blocks until one of the first nfds entries has an event. *)
PollReturn ==
    /\ ps.pc = "poll"
    /\ ps.nfds <= PollMaxClients + 1
    /\ LET f == poll_result(ps.fds, ps.nfds)
           n == poll_count(f, ps.nfds)
       IN /\ n > 0
          /\ ps' = [ps EXCEPT !.fds = f, !.n_events = n, !.pc = "listener"]
          /\ ph' = [ph EXCEPT !.polled = ps.nfds,
                              !.reported = {k \in PollIdx : /\ 1 <= k
                                                            /\ k < ps.nfds
                                                            /\ "POLLIN" \in f[k].revents}]
    /\ UNCHANGED <<selectVars, helloVars, pk>>

(* Lines 172-177: poll returns -1; perror and exit(EXIT_FAILURE).          *)
PollFail ==
    /\ ps.pc = "poll"
    /\ ps' = [ps EXCEPT !.pc = "exited", !.exit = EXIT_FAILURE]
    /\ UNCHANGED <<selectVars, helloVars, pk, ph>>

(* Line 188 false: no POLLIN on the listener.                              *)
PollListenerSkip ==
    /\ ps.pc = "listener"
    /\ "POLLIN" \notin ps.fds[0].revents
    /\ ps' = [ps EXCEPT !.i = 1, !.pc = PollAdvance(1, ps.nfds, ps.n_events)]
    /\ UNCHANGED <<selectVars, helloVars, pk, ph>>

\* accept returns the lowest descriptor not in use
poll_accept_fd == Min(PollFds \ pk.open)

(* Lines 188-200 with a free slot: the connection is stored, nfds++.       *)
PollAcceptRegister ==
    /\ ps.pc = "listener"
    /\ "POLLIN" \in ps.fds[0].revents
    /\ pk.pending > 0
    /\ LET conn_fd  == poll_accept_fd
           freeSlot == poll_find_free_slot(ps.clientStates)
       IN /\ freeSlot # -1
          /\ ps' = [ps EXCEPT !.clientStates[freeSlot] =
                                  [fd |-> conn_fd, state |-> "STATE_CONNECTED"],
                              !.nfds = @ + 1,
                              !.n_events = @ - 1,
                              !.i = 1,
                              !.pc = PollAdvance(1, ps.nfds + 1, ps.n_events - 1)]
          /\ pk' = [pk EXCEPT !.open = @ \cup {conn_fd}, !.pending = @ - 1]
          /\ ph' = [ph EXCEPT !.accepted = conn_fd]
    /\ UNCHANGED <<selectVars, helloVars>>

(* Lines 188-200 with no free slot: close(conn_fd).                        *)
PollAcceptReject ==
    /\ ps.pc = "listener"
    /\ "POLLIN" \in ps.fds[0].revents
    /\ pk.pending > 0
    /\ poll_find_free_slot(ps.clientStates) = -1
    /\ ps' = [ps EXCEPT !.n_events = @ - 1, !.i = 1,
                        !.pc = PollAdvance(1, ps.nfds, ps.n_events - 1)]
    /\ pk' = [pk EXCEPT !.pending = @ - 1]
    /\ ph' = [ph EXCEPT !.accepted = poll_accept_fd]
    /\ UNCHANGED <<selectVars, helloVars>>

(* Lines 188-200 when accept returns -1: the result is not tested, so -1   *)
(* is stored in the free slot and nfds++, or close(-1) when the table is   *)
(* full.  The queued connection is gone or still queued.                   *)
PollAcceptFail ==
    /\ ps.pc = "listener"
    /\ "POLLIN" \in ps.fds[0].revents
    /\ ph.failures < MaxAcceptFailures
    /\ LET conn_fd  == -1
           freeSlot == poll_find_free_slot(ps.clientStates)
           nfds2    == IF freeSlot = -1 THEN ps.nfds ELSE ps.nfds + 1
       IN ps' = [ps EXCEPT !.clientStates =
                               IF freeSlot = -1 THEN @
                               ELSE [@ EXCEPT ![freeSlot] =
                                        [fd |-> conn_fd, state |-> "STATE_CONNECTED"]],
                           !.nfds = nfds2,
                           !.n_events = @ - 1,
                           !.i = 1,
                           !.pc = PollAdvance(1, nfds2, ps.n_events - 1)]
    /\ \/ pk' = pk
       \/ pk.pending > 0 /\ pk' = [pk EXCEPT !.pending = @ - 1]
    /\ ph' = [ph EXCEPT !.failures = @ + 1]
    /\ UNCHANGED <<selectVars, helloVars>>

(* Line 215 false: no POLLIN in the entry; i++.                            *)
PollClientSkip ==
    /\ ps.pc = "clients"
    /\ ps.i \in PollIdx
    /\ "POLLIN" \notin ps.fds[ps.i].revents
    /\ ps' = [ps EXCEPT !.i = @ + 1, !.pc = PollAdvance(ps.i + 1, ps.nfds, ps.n_events)]
    /\ UNCHANGED <<selectVars, helloVars, pk, ph>>

\* the entry fds[i] has POLLIN and a slot holds its descriptor
PollEntryReady ==
    /\ ps.i \in PollIdx
    /\ "POLLIN" \in ps.fds[ps.i].revents
    /\ find_slot_by_fd(ps.clientStates, ps.fds[ps.i].fd) # -1

\* the reads issued in this iteration, with the one of the loop body added
PollHandled ==
    IF ps.pc = "read" THEN ph.handled
    ELSE Append(ph.handled, [idx |-> ps.i, fd |-> ps.fds[ps.i].fd])

(* Lines 216-221 when the descriptor is open with nothing to read and the  *)
(* peer has not closed: read does not return yet.                          *)
PollClientBlock ==
    /\ ps.pc = "clients"
    /\ PollEntryReady
    /\ ps.fds[ps.i].fd \in pk.open
    /\ pk.stat[ps.fds[ps.i].fd] = "idle"
    /\ ps' = [ps EXCEPT !.pc = "read"]
    /\ ph' = [ph EXCEPT !.handled = PollHandled]
    /\ UNCHANGED <<selectVars, helloVars, pk>>

(* Lines 216-231 with bytes_read > 0: printf, n_events--, i++.             *)
PollClientData ==
    /\ ps.pc \in {"clients", "read"}
    /\ PollEntryReady
    /\ LET fd == ps.fds[ps.i].fd
       IN /\ fd \in pk.open
          /\ pk.stat[fd] = "data"
          /\ pk' = [pk EXCEPT !.stat[fd] = "idle"]
    /\ ps' = [ps EXCEPT !.n_events = @ - 1, !.i = @ + 1,
                        !.pc = PollAdvance(ps.i + 1, ps.nfds, ps.n_events - 1)]
    /\ ph' = [ph EXCEPT !.handled = PollHandled]
    /\ UNCHANGED <<selectVars, helloVars>>

(* Lines 216-231 with bytes_read <= 0 (end of file, or a descriptor that   *)
(* is not open): close(fd), the slot is emptied, nfds--, n_events--, i++.  *)
PollClientRelease ==
    /\ ps.pc \in {"clients", "read"}
    /\ PollEntryReady
    /\ LET fd   == ps.fds[ps.i].fd
           slot == find_slot_by_fd(ps.clientStates, fd)
       IN /\ fd \in pk.open => pk.stat[fd] = "eof"
          /\ pk' = [pk EXCEPT !.open = @ \ {fd},
                              !.stat = [d \in PollFds |-> IF d = fd THEN "idle" ELSE @[d]]]
          /\ ps' = [ps EXCEPT !.clientStates[slot] =
                                  [fd |-> -1, state |-> "STATE_DISCONNECTED"],
                              !.nfds = @ - 1,
                              !.n_events = @ - 1,
                              !.i = @ + 1,
                              !.pc = PollAdvance(ps.i + 1, ps.nfds - 1, ps.n_events - 1)]
    /\ ph' = [ph EXCEPT !.handled = PollHandled]
    /\ UNCHANGED <<selectVars, helloVars>>

(* Undefined behaviour: poll is given more entries than fds has, the loop  *)
(* reads fds[MAX_CLIENTS + 1], or find_slot_by_fd finds no slot and        *)
(* clientStates[-1] is used.  What follows is not modelled.                *)
PollUndefined ==
    /\ \/ ps.pc = "poll" /\ ps.nfds > PollMaxClients + 1
       \/ ps.pc = "clients" /\ ps.i \notin PollIdx
       \/ /\ ps.pc = "clients"
          /\ ps.i \in PollIdx
          /\ "POLLIN" \in ps.fds[ps.i].revents
          /\ find_slot_by_fd(ps.clientStates, ps.fds[ps.i].fd) = -1
    /\ ps' = [ps EXCEPT !.pc = "undefined"]
    /\ UNCHANGED <<selectVars, helloVars, pk, ph>>

\* the poll server runs
PollRunning == ps.pc \notin {"exited", "undefined"}

(* A client connects: one more connection in the listen queue.             *)
PollPeerConnect ==
    /\ PollRunning
    /\ pk.pending < PollMaxPending
    /\ pk' = [pk EXCEPT !.pending = @ + 1]
    /\ UNCHANGED <<selectVars, helloVars, ps, ph>>

(* The peer of an accepted connection sends a message.                     *)
PollPeerSend ==
    /\ PollRunning
    /\ \E fd \in pk.open :
          /\ pk.stat[fd] = "idle"
          /\ pk' = [pk EXCEPT !.stat[fd] = "data"]
    /\ UNCHANGED <<selectVars, helloVars, ps, ph>>

(* The peer closes its end once what it sent has been read.                *)
PollPeerClose ==
    /\ PollRunning
    /\ \E fd \in pk.open :
          /\ pk.stat[fd] = "idle"
          /\ pk' = [pk EXCEPT !.stat[fd] = "eof"]
    /\ UNCHANGED <<selectVars, helloVars, ps, ph>>

InitPoll ==
    /\ clientStates = init_clients
    /\ pc = "build"
    /\ i = 0
    /\ read_fds = {}
    /\ nfds = 0
    /\ exit_code = -1
    /\ last = Step("listen", ListenFd, -1, 0, <<>>, <<Line("Server listening on port")>>)
    /\ open = {}
    /\ inbox = [fd \in ClientFds |-> <<>>]
    /\ peer = [fd \in ClientFds |-> "open"]
    /\ pending = 0
    /\ readCount = ZeroCount
    /\ readySlots = {}
    /\ acceptOutcome = "none"
    /\ hs = HsStart(PROTO_HELLO, 1, "little", 0)
    /\ hc = HcStart(2, "little")
    /\ hnet = NetStart
    /\ \E g \in PollGarbage : ps = PsStart(g)
    /\ pk = PkStart
    /\ ph = PhStart

NextPoll ==
    \/ PollRebuild
    \/ PollReturn
    \/ PollFail
    \/ PollListenerSkip
    \/ PollAcceptRegister
    \/ PollAcceptReject
    \/ PollAcceptFail
    \/ PollClientSkip
    \/ PollClientBlock
    \/ PollClientData
    \/ PollClientRelease
    \/ PollUndefined
    \/ PollPeerConnect
    \/ PollPeerSend
    \/ PollPeerClose

SpecPoll == InitPoll /\ [][NextPoll]_vars

----------------------------------------------------------------------------
(* Vocabulary of the properties.                                           *)

Occupied == {s \in Slots : clientStates[s].fd # -1}
OccupiedNext == {s \in Slots : clientStates'[s].fd # -1}
Full == Occupied = Slots

\* the step taken is a read issued by the client dispatch for slot i
ReadStep == pc = "clients" /\ readCount' # readCount

\* the data handler (the printf of line 145) ran in the latest step
HandlerRan(step) ==
    \E k \in 1 .. Len(step.lines) : step.lines[k].line = "Received data from the client"

TypeOK ==
    /\ clientStates \in [Slots -> [fd : {-1} \cup ClientFds,
                                   state : {"STATE_NEW", "STATE_CONNECTED",
                                            "STATE_DISCONNECTED"},
                                   buffer : [1 .. BUFF_SIZE -> {0, 1}]]]
    /\ pc \in {"socket", "bind", "listen", "build", "select", "listener", "clients",
              "exited"}
    /\ i \in Slots
    /\ read_fds \subseteq ({ListenFd} \cup ClientFds)
    /\ open \subseteq ClientFds
    /\ pending \in 0 .. MaxPending
    /\ readCount \in [Slots -> 0 .. 1]
    /\ readySlots \subseteq Slots
    /\ acceptOutcome \in {"none", "failed", "registered", "rejected"}

----------------------------------------------------------------------------
(* C1: capacity.  The Connected slots hold distinct open connections, the  *)
(* server never holds more than MAX_CLIENTS client connections, and right  *)
(* after an accept that found the table full the accepted descriptor is    *)
(* closed and stored in no slot.                                           *)
C1_Capacity ==
    /\ Cardinality(Occupied) <= MAX_CLIENTS
    /\ Cardinality(open) <= MAX_CLIENTS
    /\ \A s \in Slots : clientStates[s].fd # -1 <=> clientStates[s].state = "STATE_CONNECTED"
    /\ \A s \in Occupied : clientStates[s].fd \in open
    /\ (last.op = "accept" /\ acceptOutcome = "rejected") =>
          /\ last.fd \notin open
          /\ \A s \in Slots : clientStates[s].fd # last.fd

C1_Witness ==
    /\ last.op = "accept"
    /\ acceptOutcome = "rejected"
    /\ last.fd \in ClientFds
    /\ Cardinality(open) = MAX_CLIENTS

(* C2: full table.  A listener dispatch that finds every slot occupied     *)
(* leaves every slot, the set of open descriptors and the occupied count   *)
(* as they were; when its accept succeeds, the accepted connection is      *)
(* closed in that same step and the client dispatch follows.               *)
C2_FullTableReject ==
    [][(pc = "listener" /\ Full /\ pc' # pc)
        => /\ clientStates' = clientStates
           /\ open' = open
           /\ Cardinality(OccupiedNext) = Cardinality(Occupied)
           /\ acceptOutcome' # "registered"
           /\ acceptOutcome' = "rejected" =>
                 /\ last'.fd \in ClientFds \ open'
                 /\ pending' = pending - 1
                 /\ pc' = "clients"]_vars

C2_Witness ==
    /\ Full
    /\ pc = "clients"
    /\ i = 0
    /\ last.op = "accept"
    /\ Len(last.lines) = 2
    /\ ListenFd \in read_fds

(* C3: release on EOF or error.  A read that returns 0 or less closes the  *)
(* slot's descriptor, sets the slot's fd to -1 in the same step, does not  *)
(* run the data handler, lowers the occupied count by one and leaves every *)
(* other slot as it was.                                                   *)
C3_ReleaseOnEofOrError ==
    [][(ReadStep /\ last'.n <= 0)
        => /\ clientStates[i].fd \in open
           /\ open' = open \ {clientStates[i].fd}
           /\ clientStates'[i].fd = -1
           /\ ~HandlerRan(last')
           /\ Cardinality(OccupiedNext) = Cardinality(Occupied) - 1
           /\ \A t \in Slots \ {i} : clientStates'[t] = clientStates[t]]_vars

C3_Witness ==
    /\ last.op = "read"
    /\ last.n = 0
    /\ clientStates[last.slot].fd = -1
    /\ clientStates[last.slot].buffer = ZeroBuffer
    /\ Occupied # {}

(* C4: every slot whose descriptor select reported ready has been read     *)
(* exactly once when the iteration is over, whatever the listener          *)
(* dispatch did.                                                           *)
C4_EveryReadySlotReadOnce ==
    pc = "build" => \A s \in readySlots : readCount[s] = 1

(* C5: no listener starvation.  A connection pending when select returns   *)
(* is reported by that wake, however many clients are readable, and in a   *)
(* wake that reports the listener no client is served before the           *)
(* connection has been accepted: registered in a slot, or closed because   *)
(* the table is full.                                                      *)
C5_AcceptBeforeClients ==
    /\ (ListenFd \in read_fds /\ pc = "clients") =>
          acceptOutcome \in {"registered", "rejected"}
    /\ (ListenFd \in read_fds /\ \E s \in Slots : readCount[s] > 0) =>
          /\ acceptOutcome \in {"registered", "rejected"}
          /\ acceptOutcome = "rejected" => Cardinality(Occupied) + Cardinality(
                 {s \in Slots : readCount[s] > 0 /\ clientStates[s].fd = -1}) = MAX_CLIENTS

C5_ListenerNotStarved ==
    /\ []C5_AcceptBeforeClients
    /\ [][(pc = "select" /\ pc' = "listener" /\ pending > 0)
            => ListenFd \in read_fds']_vars

C5_Witness ==
    /\ pc = "build"
    /\ ListenFd \in read_fds
    /\ Cardinality(readySlots) = MAX_CLIENTS - 1
    /\ \A s \in readySlots : readCount[s] = 1
    /\ acceptOutcome = "registered"

(* C6: slot reuse.  A released slot is free for the next find_free_slot    *)
(* call just as a never-used one: the call does not return -1, and it      *)
(* returns that slot when no lower slot is free.                           *)
C6_SlotReuse ==
    \A s \in Slots :
        clientStates[s].state \in {"STATE_DISCONNECTED", "STATE_NEW"} =>
            /\ find_free_slot(clientStates) # -1
            /\ (\A t \in Slots : t < s => clientStates[t].fd # -1) =>
                  find_free_slot(clientStates) = s

C6_Witness ==
    \E s \in Slots :
        /\ s > 0
        /\ clientStates[s].state = "STATE_DISCONNECTED"
        /\ clientStates[s].buffer # ZeroBuffer
        /\ \A t \in Slots : t < s => clientStates[t].fd # -1
        /\ find_free_slot(clientStates) = s

(* C7: find_free_slot is first-fit and total.  It returns the lowest index *)
(* whose fd is -1, and -1 exactly when no slot has fd -1.                  *)
C7_FindFreeSlotFirstFit ==
    LET Free == Slots \ Occupied
        r    == find_free_slot(clientStates)
    IN /\ r \in Slots \cup {-1}
       /\ r = -1 <=> Free = {}
       /\ r # -1 => r \in Free /\ \A t \in Free : r <= t

C7_Witness ==
    /\ clientStates[0].fd # -1
    /\ find_free_slot(clientStates) = MAX_CLIENTS - 1
    /\ MAX_CLIENTS > 1

(* C8: no cross-talk between live connections.  A read for slot i changes  *)
(* nothing of any other slot, a read that returns data changes nothing but *)
(* slot i's buffer, and no other step changes any buffer.                  *)
C8_NoCrossTalk ==
    [][/\ ReadStep => \A t \in Slots \ {i} : clientStates'[t] = clientStates[t]
       /\ (ReadStep /\ last'.n > 0) =>
             /\ clientStates'[i].fd = clientStates[i].fd
             /\ clientStates'[i].state = clientStates[i].state
             /\ SubSeq(clientStates'[i].buffer, 1, last'.n) = last'.bytes
       /\ ~ReadStep => \A t \in Slots : clientStates'[t].buffer = clientStates[t].buffer
      ]_vars

C8_Witness ==
    /\ last.op = "read"
    /\ last.n = 1
    /\ \E t \in Occupied \ {last.slot} :
          /\ clientStates[t].buffer # ZeroBuffer
          /\ clientStates[t].buffer # clientStates[last.slot].buffer

(* C9: no cross-talk across reuse.  What the data handler is given         *)
(* holds, within the buffer, only the bytes the read just received: none   *)
(* left there by an earlier read or by an earlier occupant of the slot.    *)
C9_HandlerSeesOnlyReceivedBytes ==
    (last.op = "read" /\ last.n > 0) =>
        \A k \in 1 .. Len(last.lines) :
            LET seen == last.lines[k].data
            IN SubSeq(seen, 1, IF Len(seen) < BUFF_SIZE THEN Len(seen) ELSE BUFF_SIZE)
                   = last.bytes

----------------------------------------------------------------------------
(* Vocabulary of the properties of the hello handshake.                    *)

\* the client's one read returned a whole frame
FrameRead == hc.reads = 1 /\ hc.n = SizeofHdr + SizeofInt

\* a frame of tag, length and payload, each big-endian, with nothing between
wire_layout(tag, version) ==
    BytesBE(tag, SizeofInt) \o BytesBE(SizeofInt, SizeofShort) \o BytesBE(version, SizeofInt)

\* the process printed the line
Printed(out, text) == \E k \in 1 .. Len(out) : out[k] = Line(text)

----------------------------------------------------------------------------
(* C11: an accept failure is recoverable in both servers.  A step in which *)
(* accept fails leaves every connection slot as it was, does not terminate *)
(* the server, and leads back to the wait for the next connection or       *)
(* readiness event.                                                        *)
C11_AcceptFailureRecoverable ==
    [][/\ (acceptOutcome' = "failed" /\ acceptOutcome # "failed")
              => (clientStates' = clientStates /\ exit_code' = -1 /\ pc' = "build")
       /\ (hs'.acceptFailed /\ ~hs.acceptFailed)
              => (hs'.exit = -1 /\ hs'.sock /\ hs'.pc = "accept")]_vars

----------------------------------------------------------------------------
(* C12: fatal setup errors.  In both servers a failure of socket, bind or  *)
(* listen is reported, the process has exited with a non-zero code, and    *)
(* the accept loop was never entered.                                      *)
C12_SetupFailureFatal ==
    /\ (last.op \in {"socket", "bind", "listen"} /\ last.n = -1)
          => (pc = "exited" /\ exit_code \notin {-1, 0} /\ last.lines # <<>>)
    /\ hs.failed # "none"
          => (/\ hs.pc = "exited"
              /\ hs.exit \notin {-1, 0}
              /\ Printed(hs.out, hs.failed)
              /\ ~hs.looped)

----------------------------------------------------------------------------
(* C13: hello round trip.  A frame read whole is decoded to the type, the  *)
(* length 4 and the version the sender put in it, whatever the byte order  *)
(* of the two hosts; type Hello with version 1 is reported as a successful *)
(* v1 handshake, type Hello with another version as a version mismatch, a  *)
(* type other than Hello as a protocol mismatch; the receiver writes no    *)
(* response and has closed the connection when it exits.                   *)
C13_HelloRoundTrip ==
    FrameRead =>
        /\ hc.hdr = [type |-> hs.tag, len |-> SizeofInt, data |-> hs.version]
        /\ (hs.tag = PROTO_HELLO /\ hs.version = 1)
              => hc.out = <<Line("Server connected to protocol v1")>>
        /\ (hs.tag = PROTO_HELLO /\ hs.version # 1)
              => hc.out = <<[line |-> "Version", data |-> <<hs.version>>],
                            Line("Protocal version mismatch")>>
        /\ hs.tag # PROTO_HELLO => hc.out = <<Line("Protocol mismatch")>>
        /\ hnet.reply = <<>>
        /\ hc.pc = "exited" => ~hc.fd

\* a little-endian client has read the frame of the source and has exited
C13_Witness ==
    /\ FrameRead
    /\ hs.tag = PROTO_HELLO /\ hs.version = 1
    /\ hs.endian = "little" /\ hc.endian = "little"
    /\ hc.pc = "exited"
    /\ hc.out = <<Line("Server connected to protocol v1")>>

----------------------------------------------------------------------------
(* C14: wire layout of the Hello frame.  Exactly 10 bytes are written: a   *)
(* 4-byte big-endian type tag, a 2-byte big-endian length equal to 4, and  *)
(* the 4-byte big-endian version right after the length field; for type 0  *)
(* and version 1 the bytes are 00 00 00 00 00 04 00 00 00 01.              *)
C14_WireLayout ==
    hnet.sent # <<>> =>
        /\ Len(hnet.sent) = SizeofInt + SizeofShort + SizeofInt
        /\ hnet.sent = wire_layout(hs.tag, hs.version)
        /\ (hs.tag = PROTO_HELLO /\ hs.version = 1)
              => hnet.sent = <<0, 0, 0, 0, 0, 4, 0, 0, 0, 1>>

----------------------------------------------------------------------------
(* C15: client command line.  Without the address argument the client      *)
(* creates no socket and attempts no connection, and when it has exited it *)
(* has printed the usage message and its exit code is not zero; with the   *)
(* argument it connects at most once, reads at most once and only on a     *)
(* connection it made, and has closed its descriptor when it has exited.   *)
C15_ClientCli ==
    /\ hc.argc < 2
          => (/\ hc.sockets = 0 /\ hc.connects = 0 /\ hc.reads = 0 /\ ~hc.fd
              /\ hc.pc \in {"start", "exited"}
              /\ hc.pc = "exited" => (hc.out = <<Line("Usage")>> /\ hc.exit \notin {-1, 0}))
    /\ hc.argc >= 2
          => (/\ hc.sockets <= 1 /\ hc.connects <= 1 /\ hc.reads <= 1
              /\ hc.reads = 1 => hc.connects = 1
              /\ hc.pc = "exited" => ~hc.fd)

\* the client started without the argument has exited
C15_Witness ==
    /\ hc.argc < 2
    /\ hc.pc = "exited"
    /\ hc.out = <<Line("Usage")>>
    /\ hc.exit = ExitStatus(-1)

----------------------------------------------------------------------------
\* the greatest member of a set of descriptors
MaxOf(S) == CHOOSE x \in S : \A y \in S : y <= x

\* the step taken is a call of accept that returned a connection
AcceptStep ==
    pc = "listener" /\ acceptOutcome' \in {"registered", "rejected"}

----------------------------------------------------------------------------
(* C16 as stated: slot lifecycle.  When an iteration begins no slot is in  *)
(* the Disconnected state: each slot is Connected with a descriptor, or    *)
(* has descriptor -1 and the lifecycle state of a never-used slot.         *)
C16_NoDisconnectedPersists ==
    pc = "build" =>
        \A s \in Slots :
            /\ clientStates[s].state # "STATE_DISCONNECTED"
            /\ \/ clientStates[s].state = "STATE_CONNECTED" /\ clientStates[s].fd # -1
               \/ /\ clientStates[s].fd = init_clients[s].fd
                  /\ clientStates[s].state = init_clients[s].state

(* C16 as amended: slot lifecycle.  Each slot is Connected with an open    *)
(* descriptor, or has descriptor -1 with the state New of a never-used     *)
(* slot (whose buffer is still zeroed) or the state Disconnected of a      *)
(* released one; a slot that is not in use differs from a never-used slot  *)
(* in nothing that find_free_slot reads.                                   *)
C16_SlotLifecycle ==
    \A s \in Slots :
        /\ \/ /\ clientStates[s].state = "STATE_CONNECTED"
              /\ clientStates[s].fd # -1
              /\ clientStates[s].fd \in open
           \/ /\ clientStates[s].state \in {"STATE_NEW", "STATE_DISCONNECTED"}
              /\ clientStates[s].fd = init_clients[s].fd
        /\ clientStates[s].state = "STATE_NEW" => clientStates[s] = init_clients[s]
        /\ clientStates[s].fd = -1 =>
              find_free_slot_from(clientStates, s) = find_free_slot_from(init_clients, s)

\* an iteration begins with a released slot, a slot in use and no other
C16_Witness ==
    /\ pc = "build"
    /\ clientStates[0].state = "STATE_DISCONNECTED"
    /\ clientStates[0].fd = -1
    /\ \E s \in Slots : clientStates[s].state = "STATE_CONNECTED"

----------------------------------------------------------------------------
(* C17: query-set construction.  The set handed to select is the listening *)
(* descriptor and the descriptor of every slot in use and nothing else,    *)
(* every client descriptor in it is open, and nfds is the highest          *)
(* descriptor of the set plus 1.                                           *)
C17_QuerySet ==
    pc = "select" =>
        /\ read_fds = {ListenFd} \cup {clientStates[s].fd : s \in Occupied}
        /\ (read_fds \ {ListenFd}) \subseteq open
        /\ nfds = MaxOf(read_fds) + 1

\* select is about to be called after a slot below one in use was released
C17_Witness ==
    /\ pc = "select"
    /\ \E s, t \in Slots :
          /\ s < t
          /\ clientStates[s].state = "STATE_DISCONNECTED"
          /\ clientStates[t].fd # -1
          /\ read_fds = {ListenFd, clientStates[t].fd}
          /\ nfds = clientStates[t].fd + 1

----------------------------------------------------------------------------
(* C18: accept and read are called only on what select reported in this    *)
(* iteration.  accept has been called only if the listener was in the      *)
(* returned set, a slot has been read only if it was in the returned set   *)
(* (so a slot filled in this iteration has not), and a call about to be    *)
(* made cannot block: a connection is queued when accept is called, and    *)
(* data, end of file or an error is waiting when read is called.           *)
C18_OnlyReadyDescriptors ==
    /\ acceptOutcome # "none" => ListenFd \in read_fds
    /\ \A s \in Slots : readCount[s] > 0 => s \in readySlots
    /\ (pc = "clients" /\ ClientReady(i)) => Readable(clientStates[i].fd)
    /\ (pc = "listener" /\ ListenerReady) => pending > 0

----------------------------------------------------------------------------
----------------------------------------------------------------------------
(* C20: release only of a slot in use.  Every read is issued on the        *)
(* descriptor of a slot in use, which is open; a release closes that open  *)
(* descriptor, which is not -1, and empties the slot; a rejected           *)
(* connection is closed once; no step closes more than one descriptor.     *)
C20_ReleaseOnlyNonEmpty ==
    [][/\ ReadStep
            => /\ clientStates[i].fd # -1
               /\ clientStates[i].fd \in open
               /\ last'.fd = clientStates[i].fd
       /\ (ReadStep /\ last'.n <= 0)
            => /\ open \ open' = {clientStates[i].fd}
               /\ clientStates'[i].fd = -1
               /\ \A t \in Slots : clientStates'[t].fd # clientStates[i].fd
       /\ (pc = "listener" /\ acceptOutcome' = "rejected")
            => (last'.fd # -1 /\ last'.fd \notin open /\ open' = open)
       /\ Cardinality(open \ open') <= 1]_vars

\* a failed read released a slot while another slot stays in use
C20_Witness ==
    /\ last.op = "read"
    /\ last.n = -1
    /\ last.fd # -1
    /\ last.fd \notin open
    /\ clientStates[last.slot].fd = -1
    /\ \E t \in Slots : clientStates[t].fd # -1

----------------------------------------------------------------------------
(* Vocabulary of the properties of the poll server.                        *)

PollOccupied == {s \in PSlots : ps.clientStates[s].fd # -1}

\* the indices of the entries the client loop has handled in this iteration
HandledIdx == {ph.handled[k].idx : k \in 1 .. Len(ph.handled)}

----------------------------------------------------------------------------
(* C21: poll variant, nfds.  When an iteration starts nfds is 1 plus the   *)
(* number of slots in use, and poll is given the listening socket at index *)
(* 0 and exactly the descriptors of the slots in use at indices 1 to       *)
(* nfds - 1, whatever accepts (successful, failed, rejected) and           *)
(* disconnects came before.                                                *)
C21_PollNfds ==
    /\ ps.pc \in {"rebuild", "poll"} => ps.nfds = 1 + Cardinality(PollOccupied)
    /\ ps.pc = "poll" =>
          /\ ps.fds[0].fd = ListenFd
          /\ {ps.fds[k].fd : k \in {j \in PollIdx : 1 <= j /\ j < ps.nfds}}
                = {ps.clientStates[s].fd : s \in PollOccupied}

----------------------------------------------------------------------------
(* C22: poll variant, client dispatch with the event counter.  When the    *)
(* loop of line 214 is left, every client entry that poll reported with    *)
(* POLLIN in this iteration has been handled, also when handled clients    *)
(* disconnected during the loop.  Stated for the runs in which no accept   *)
(* has failed.                                                             *)
C22_PollEveryReadyHandled ==
    (ps.pc = "rebuild" /\ ph.failures = 0) => ph.reported \subseteq HandledIdx

----------------------------------------------------------------------------
(* C23: select server, descriptor conservation.  In every state the open   *)
(* client descriptors are exactly the descriptors stored in slots in use,  *)
(* and no descriptor is stored in two slots: no connection is left open    *)
(* without a slot, no slot names a closed descriptor, no duplicates.       *)
C23_DescriptorConservation ==
    /\ open = {clientStates[s].fd : s \in Occupied}
    /\ \A s, t \in Occupied : clientStates[s].fd = clientStates[t].fd => s = t

\* the top of the loop after an iteration that rejected a connection at a
\* full table: the rejected descriptor is closed, the stored ones are open
C23_Witness ==
    /\ pc = "build"
    /\ acceptOutcome = "rejected"
    /\ Full
    /\ open = {clientStates[s].fd : s \in Slots}

----------------------------------------------------------------------------
(* C24: poll variant, handled entries.  Every entry the client loop has    *)
(* handled in this iteration lies below the nfds given to poll and holds a *)
(* descriptor of a slot in use, so find_slot_by_fd found its slot; none is *)
(* the connection accepted in this iteration, no descriptor was read       *)
(* twice, and the loop has not left the array.                             *)
C24_PollHandledEntries ==
    /\ \A k \in 1 .. Len(ph.handled) :
          /\ 1 <= ph.handled[k].idx
          /\ ph.handled[k].idx < ph.polled
          /\ ph.handled[k].fd \in PollFds
          /\ ph.handled[k].fd # ph.accepted
    /\ \A j, k \in 1 .. Len(ph.handled) :
          j # k => ph.handled[j].fd # ph.handled[k].fd
    /\ ps.pc # "undefined"

====
